---- MODULE Spec2Model ----
\* A model of the logger library (logger.c / logger.h): the dispatch table
\* logHandlers, the sink logOutput, the initialized flag, the emit functions,
\* setHandler, initLog, the default handlers and logFormat.
EXTENDS Integers, Sequences, FiniteSets, TLC

\* ------------------------------------------------------------------ bounds
\* Largest number of fprintf calls on the sink that a behaviour may make.
MaxLines == 1
\* Largest number of slots a behaviour may have differing from the defaults.
MaxChanged == 2
\* Longest message handed directly to logFormat.
MaxMsgLen == 62

\* ------------------------------------------------------- program constants
NUM_LOG_CATS == 5
MAX_CHARS_IN_LOG_CAT == 8
MAX_CHARS_IN_MSG == 60
MAX_CHARS_IN_DATE == 30
MAX_CHARS_IN_FINAL_MSG == MAX_CHARS_IN_MSG + MAX_CHARS_IN_DATE + MAX_CHARS_IN_LOG_CAT + 12

UPPER_INDEX == 0
LOWER_INDEX == 1

VERBOSE_IDX == 0
INFO_IDX == 1
WARNING_IDX == 2
ERROR_IDX == 3
FATAL_IDX == 4

\* The null pointer of a stream or of a handler.
NULL == "NULL"
\* The null pointer of a string (strings are sequences of characters).
NullStr == << "NULL" >>
\* The string terminator inside a character buffer.
NUL == "NUL"

VALID_CATS ==
  [index \in 0..(NUM_LOG_CATS - 1) |->
     CASE index = VERBOSE_IDX -> [c \in {UPPER_INDEX, LOWER_INDEX} |->
            IF c = UPPER_INDEX THEN << "V", "E", "R", "B", "O", "S", "E" >>
                               ELSE << "v", "e", "r", "b", "o", "s", "e" >>]
       [] index = INFO_IDX    -> [c \in {UPPER_INDEX, LOWER_INDEX} |->
            IF c = UPPER_INDEX THEN << "I", "N", "F", "O" >> ELSE << "i", "n", "f", "o" >>]
       [] index = WARNING_IDX -> [c \in {UPPER_INDEX, LOWER_INDEX} |->
            IF c = UPPER_INDEX THEN << "W", "A", "R", "N", "I", "N", "G" >>
                               ELSE << "w", "a", "r", "n", "i", "n", "g" >>]
       [] index = ERROR_IDX   -> [c \in {UPPER_INDEX, LOWER_INDEX} |->
            IF c = UPPER_INDEX THEN << "E", "R", "R", "O", "R" >> ELSE << "e", "r", "r", "o", "r" >>]
       [] OTHER               -> [c \in {UPPER_INDEX, LOWER_INDEX} |->
            IF c = UPPER_INDEX THEN << "F", "A", "T", "A", "L" >> ELSE << "f", "a", "t", "a", "l" >>]]

\* The label literals the default handlers pass to logFormat, as characters.
LabelChars(index) ==
  CASE index = VERBOSE_IDX -> << "V", "E", "R", "B", "O", "S", "E" >>
    [] index = INFO_IDX    -> << "I", "N", "F", "O" >>
    [] index = WARNING_IDX -> << "W", "A", "R", "N", "I", "N", "G" >>
    [] index = ERROR_IDX   -> << "E", "R", "R", "O", "R" >>
    [] OTHER               -> << "F", "A", "T", "A", "L" >>

\* The text logger() hands to warning() when no category matched.
MSG_NOT_LOGGED ==
  << "I", "n", "v", "a", "l", "i", "d", " ", "c", "a", "t", "e", "g",
     "o", "r", "y", " ", "p", "r", "o", "v", "i", "d", "e", "d", ".",
     " ", "M", "e", "s", "s", "a", "g", "e", " ", "i", "s", " ", "n",
     "o", "t", " ", "l", "o", "g", "g", "e", "d", "." >>

\* The text setHandler() hands to warning() when no category matched.
HANDLER_NOT_SET ==
  << "I", "n", "v", "a", "l", "i", "d", " ", "c", "a", "t", "e", "g",
     "o", "r", "y", " ", "p", "r", "o", "v", "i", "d", "e", "d", ".",
     " ", "H", "a", "n", "d", "l", "e", "r", " ", "i", "s", " ", "n",
     "o", "t", " ", "s", "e", "t", "." >>

\* ------------------------------------------------------------------ inputs
\* Streams a caller may pass to initLog.
Streams == {"f1", "f2"}

\* Category names a caller may pass: NULL, the ten valid spellings, a name of
\* no category and a mixed-case spelling.
CatNames ==
  {NullStr, << "D", "E", "B", "U", "G" >>, << "I", "n", "f", "o" >>} \cup
  {VALID_CATS[index][c] : index \in 0..(NUM_LOG_CATS - 1), c \in {UPPER_INDEX, LOWER_INDEX}}

\* Messages a caller may pass to the emit functions.
Msgs == { << "H", "i" >> }

\* Conditions a caller may pass.
Conds == {0, 1}

\* A handler written by the user; it does not touch the logger's state.
CustomHandler == "customHandler"

\* Handlers a caller may pass to setHandler.
HandlerArgs == {NULL, CustomHandler, "defaultVerboseHandler"}

\* The handlers passed together with a given name: the library's verbose
\* handler is offered for the category it is written for.
HandlerArgsFor(cat) ==
  IF cat \in {VALID_CATS[VERBOSE_IDX][UPPER_INDEX], VALID_CATS[VERBOSE_IDX][LOWER_INDEX]}
    THEN HandlerArgs
    ELSE HandlerArgs \ {"defaultVerboseHandler"}

\* What the environment supplies during one call: the text strftime renders
\* (empty when time() or localtime() fails) and the character an out-of-bounds
\* read yields.
Dates == { << "D" >> }
Envs == [date : Dates, stray : {"x"}]

\* Buffers a caller may pass to logFormat as dest.
FormatDests == {NULL, "dest"}

\* Categories a caller may pass to logFormat: NULL and the five labels the
\* default handlers pass.
FormatCats == {NullStr} \cup {LabelChars(index) : index \in 0..(NUM_LOG_CATS - 1)}

\* A message of n characters ending in last, with kept at position
\* MAX_CHARS_IN_MSG when it is longer than that.
FormatMsg(n, kept, last) ==
  [i \in 1..n |-> IF i = n THEN last ELSE IF i = MAX_CHARS_IN_MSG THEN kept ELSE "a"]

\* Messages a caller may pass to logFormat: NULL, the empty string and strings
\* of every length up to MaxMsgLen, ending in a letter or a punctuation mark.
FormatMsgs ==
  {NullStr} \cup
  {FormatMsg(n, kept, last) : n \in 0..MaxMsgLen, kept \in {"a", "!"},
                              last \in {"a", ".", "!", "?"}}

\* What dateField holds after strftime: nothing when time() or localtime()
\* failed, otherwise up to MAX_CHARS_IN_DATE characters.
FormatDates == {<< >>, [i \in 1..MAX_CHARS_IN_DATE |-> "9"]}

\* The environment of a direct logFormat call; the character before the
\* message in memory may or may not be a punctuation mark.
FormatEnvs == [date : FormatDates, stray : {"x", "."}]

\* --------------------------------------------------------------- the state
VARIABLES
  logHandlers,   \* the dispatch table: slot index -> handler or NULL
  logOutput,     \* the sink, or NULL
  initialized,   \* 0 or 1
  written,       \* what fprintf has put on the sink, one entry per call
  atexitRegs,    \* how many times closeLog was registered with atexit
  ub,            \* TRUE once undefined behaviour was executed
  calls,         \* the handler invocations made by the last call
  ret,           \* the return value of the last call: Void or Returned(v)
  op,            \* the call just made, its name and arguments, or "idle"
  phase,         \* "running" or "exited"
  closes,        \* how many times fclose ran on the sink
  fmt            \* a direct call of logFormat: its arguments and what it left

vars == << logHandlers, logOutput, initialized, written, atexitRegs, ub,
           calls, ret, op, phase, closes, fmt >>

\* The part of the state the library functions read and write, as a record
\* threaded through the operators below.
State ==
  [logHandlers |-> logHandlers, logOutput |-> logOutput,
   initialized |-> initialized, written |-> written,
   atexitRegs |-> atexitRegs, ub |-> ub, calls |-> << >>]

\* ------------------------------------------------------------- logFormat
IsPunct(ch) == ch \in {".", "!", "?"}

\* strcmp: only its being zero or not is used.
strcmp(a, b) == IF a = b THEN 0 ELSE 1

\* strncpy(dst, src, n) on a buffer indexed from 0: copies at most n characters
\* and fills with NUL up to n when src is shorter.
strncpy(dst, src, n) ==
  [i \in DOMAIN dst |->
     IF i < n THEN (IF i < Len(src) THEN src[i + 1] ELSE NUL) ELSE dst[i]]

\* The characters of a buffer up to its first NUL (all of it when none).
RECURSIVE CStrFrom(_, _)
CStrFrom(buf, i) ==
  IF i \notin DOMAIN buf \/ buf[i] = NUL THEN << >>
  ELSE << buf[i] >> \o CStrFrom(buf, i + 1)

CStr(buf) == CStrFrom(buf, 0)

HasNul(buf) == \E i \in DOMAIN buf : buf[i] = NUL

\* printf's %-*s: left-justified, padded with spaces to at least width.
RECURSIVE PadRight(_, _)
PadRight(s, width) ==
  IF Len(s) >= width THEN s ELSE PadRight(s \o << " " >>, width)

\* MsgStr msgField = "(null)": the literal, the rest of the array zeroed.
MsgFieldInit ==
  [i \in 0..(MAX_CHARS_IN_MSG + 1) |->
     IF i < 6 THEN << "(", "n", "u", "l", "l", ")" >>[i + 1] ELSE NUL]

\* The message field logFormat builds, with whether building it executed
\* undefined behaviour.
MsgField(msg, env) ==
  IF msg = NullStr
    THEN [ub |-> TRUE, buf |-> MsgFieldInit]          \* strlen(NULL)
    ELSE
      LET MSG_NUM_CHARS == Len(msg)
          copied == strncpy(MsgFieldInit, msg, MAX_CHARS_IN_MSG)
          last == IF MSG_NUM_CHARS = 0 THEN env.stray ELSE msg[MSG_NUM_CHARS]
          dotted ==
            [i \in DOMAIN copied |->
               IF i = MSG_NUM_CHARS THEN "."
               ELSE IF i = MSG_NUM_CHARS + 1 THEN NUL ELSE copied[i]]
      IN IF IsPunct(last)
           THEN [ub |-> MSG_NUM_CHARS = 0, buf |-> copied]
           ELSE [ub |-> MSG_NUM_CHARS = 0 \/ MSG_NUM_CHARS + 1 > MAX_CHARS_IN_MSG + 1,
                 buf |-> dotted]

\* A slip in logFormat: a space follows the colon of the category field.
CatFieldWithSpace(cat) == IF cat # NullStr THEN cat \o << ":", " " >> ELSE << >>

\* LogCategory catField = "" and sprintf(catField, "%s:", cat) when cat is
\* not null.
CatField(cat) == IF cat # NullStr THEN cat \o << ":" >> ELSE << >>

\* The indices of msg that logFormat reads: strlen() up to the terminator,
\* strncpy() within that, and msg[MSG_NUM_CHARS - 1].
MsgReads(msg) == (0..Len(msg)) \cup {Len(msg) - 1}

\* The indices of msgField that logFormat writes: strncpy() fills the first
\* MAX_CHARS_IN_MSG cells, and the '.' and its terminator go to
\* MSG_NUM_CHARS and MSG_NUM_CHARS + 1.
MsgFieldWrites(msg, env) ==
  LET MSG_NUM_CHARS == Len(msg)
      last == IF MSG_NUM_CHARS = 0 THEN env.stray ELSE msg[MSG_NUM_CHARS]
  IN (0..(MAX_CHARS_IN_MSG - 1)) \cup
     (IF IsPunct(last) THEN {} ELSE {MSG_NUM_CHARS, MSG_NUM_CHARS + 1})

\* logFormat with a non-null dest: the text left in dest and whether undefined
\* behaviour was executed on the way.
logFormat(cat, msg, env) ==
  LET catField == CatField(cat)
      mf == MsgField(msg, env)
      text == env.date \o << "\t", "\t" >> \o PadRight(catField, MAX_CHARS_IN_LOG_CAT)
                \o << "\t", "\t" >> \o CStr(mf.buf)
  IN [ub |-> \/ mf.ub
             \/ ~HasNul(mf.buf)
             \/ Len(catField) > MAX_CHARS_IN_LOG_CAT
             \/ Len(text) > MAX_CHARS_IN_FINAL_MSG,
      text |-> text]

\* What a direct call of logFormat leaves when none was made.
NoResult ==
  [ret |-> NULL, formatted |-> FALSE, text |-> << >>, catField |-> << >>,
   msgField |-> << >>, terminated |-> FALSE, reads |-> {}, writes |-> {},
   ub |-> FALSE]

\* logFormat(dest, cat, msg) in full: the pointer returned, whether dest was
\* written and with what, the two fields built on the way, the indices read
\* in msg and written in msgField, and whether undefined behaviour was
\* executed. The fields are built before dest is looked at.
logFormatCall(dest, cat, msg, env) ==
  LET mf == MsgField(msg, env)
      f == logFormat(cat, msg, env)
  IN [ret |-> dest,
      formatted |-> dest # NULL,
      text |-> IF dest # NULL THEN f.text ELSE << >>,
      catField |-> CatField(cat),
      msgField |-> CStr(mf.buf),
      terminated |-> HasNul(mf.buf),
      reads |-> IF msg = NullStr THEN {} ELSE MsgReads(msg),
      writes |-> IF msg = NullStr THEN {} ELSE MsgFieldWrites(msg, env),
      ub |-> IF dest # NULL
               THEN f.ub
               ELSE mf.ub \/ Len(CatField(cat)) > MAX_CHARS_IN_LOG_CAT]

\* ------------------------------------------------------ default handlers
\* A slip in the default handlers: cond is not tested.
defaultHandlerIgnoresCond(st, label, cond, msg, env) ==
  IF st.logOutput # NULL
    THEN LET f == logFormat(label, msg, env)
         IN [st EXCEPT !.written = Append(@, f.text \o << "\n" >>),
                       !.ub = @ \/ f.ub]
    ELSE st

\* The body the five default handlers share, with the label each one passes.
defaultHandler(st, label, cond, msg, env) ==
  IF cond # 0 /\ st.logOutput # NULL
    THEN LET f == logFormat(label, msg, env)
         IN [st EXCEPT !.written = Append(@, f.text \o << "\n" >>),
                       !.ub = @ \/ f.ub]
    ELSE st

defaultVerboseHandler(st, cond, msg, env) ==
  defaultHandler(st, LabelChars(VERBOSE_IDX), cond, msg, env)

defaultInfoHandler(st, cond, msg, env) ==
  defaultHandler(st, LabelChars(INFO_IDX), cond, msg, env)

defaultWarningHandler(st, cond, msg, env) ==
  defaultHandler(st, LabelChars(WARNING_IDX), cond, msg, env)

\* A slip in defaultErrorHandler: the label of the neighbouring handler.
defaultErrorHandlerFatalLabel(st, cond, msg, env) ==
  defaultHandler(st, LabelChars(FATAL_IDX), cond, msg, env)

defaultErrorHandler(st, cond, msg, env) ==
  defaultHandler(st, LabelChars(ERROR_IDX), cond, msg, env)

defaultFatalHandler(st, cond, msg, env) ==
  defaultHandler(st, LabelChars(FATAL_IDX), cond, msg, env)

\* The call logHandlers[index](cond, msg) through the function pointer h;
\* calling through a null pointer is undefined behaviour.
CallHandler(st, index, h, cond, msg, env) ==
  LET st1 == [st EXCEPT !.calls =
                Append(@, [index |-> index, handler |-> h, cond |-> cond, msg |-> msg])]
  IN CASE h = NULL                    -> [st1 EXCEPT !.ub = TRUE]
       [] h = "defaultVerboseHandler" -> defaultVerboseHandler(st1, cond, msg, env)
       [] h = "defaultInfoHandler"    -> defaultInfoHandler(st1, cond, msg, env)
       [] h = "defaultWarningHandler" -> defaultWarningHandler(st1, cond, msg, env)
       [] h = "defaultErrorHandler"   -> defaultErrorHandler(st1, cond, msg, env)
       [] h = "defaultFatalHandler"   -> defaultFatalHandler(st1, cond, msg, env)
       [] OTHER                       -> st1

\* --------------------------------------------------------- emit functions
verbose(st, cond, msg, env) ==
  IF st.logHandlers[VERBOSE_IDX] # NULL
    THEN CallHandler(st, VERBOSE_IDX, st.logHandlers[VERBOSE_IDX], cond, msg, env)
    ELSE st

info(st, cond, msg, env) ==
  IF st.logHandlers[INFO_IDX] # NULL
    THEN CallHandler(st, INFO_IDX, st.logHandlers[INFO_IDX], cond, msg, env)
    ELSE st

warning(st, cond, msg, env) ==
  IF st.logHandlers[WARNING_IDX] # NULL
    THEN CallHandler(st, WARNING_IDX, st.logHandlers[WARNING_IDX], cond, msg, env)
    ELSE st

error(st, cond, msg, env) ==
  IF st.logHandlers[ERROR_IDX] # NULL
    THEN CallHandler(st, ERROR_IDX, st.logHandlers[ERROR_IDX], cond, msg, env)
    ELSE st

fatal(st, cond, msg, env) ==
  IF st.logHandlers[FATAL_IDX] # NULL
    THEN CallHandler(st, FATAL_IDX, st.logHandlers[FATAL_IDX], cond, msg, env)
    ELSE st

\* The emit function of category c.
emit(st, c, cond, msg, env) ==
  CASE c = VERBOSE_IDX -> verbose(st, cond, msg, env)
    [] c = INFO_IDX    -> info(st, cond, msg, env)
    [] c = WARNING_IDX -> warning(st, cond, msg, env)
    [] c = ERROR_IDX   -> error(st, cond, msg, env)
    [] OTHER           -> fatal(st, cond, msg, env)

\* -------------------------------------------------------------- setHandler
\* A slip in setHandler's test: only the upper-case spelling is compared.
setHandlerMatchUpperOnly(cat, index) ==
  strcmp(cat, VALID_CATS[index][UPPER_INDEX]) = 0

\* The test of setHandler's loop: cat is the upper- or lower-case spelling of
\* category index.
setHandlerMatch(cat, index) ==
  \/ strcmp(cat, VALID_CATS[index][UPPER_INDEX]) = 0
  \/ strcmp(cat, VALID_CATS[index][LOWER_INDEX]) = 0

\* The for loop of setHandler from index on; yields the state and catValid.
RECURSIVE setHandlerLoop(_, _, _, _, _)
setHandlerLoop(st, cat, handler, index, catValid) ==
  IF index < NUM_LOG_CATS /\ catValid = 0
    THEN IF setHandlerMatch(cat, index)
           THEN setHandlerLoop([st EXCEPT !.logHandlers[index] = handler],
                               cat, handler, index + 1, 1)
           ELSE setHandlerLoop(st, cat, handler, index + 1, catValid)
    ELSE [st |-> st, catValid |-> catValid]

\* A slip in setHandler's guard: the initialized flag is not tested.
setHandlerGuardNoFlag(st, cat) == cat # NullStr

\* The guard of the loop in setHandler.
setHandlerGuard(st, cat) == cat # NullStr /\ st.initialized # 0

\* A slip in setHandler: when the guard fails (null name or subsystem not
\* initialized) the failure is not reported through warning().
setHandlerSilentFailure(st, cat, handler, env) ==
  LET scanned == IF setHandlerGuard(st, cat)
                   THEN setHandlerLoop(st, cat, handler, 0, 0)
                   ELSE [st |-> st, catValid |-> 1]
      after == IF scanned.catValid = 0
                 THEN warning(scanned.st, 1, HANDLER_NOT_SET, env)
                 ELSE scanned.st
  IN [st |-> after, ret |-> IF setHandlerGuard(st, cat) THEN scanned.catValid ELSE 0]

\* setHandler(cat, handler): the state it leaves and the value it returns.
setHandler(st, cat, handler, env) ==
  LET scanned == IF setHandlerGuard(st, cat)
                   THEN setHandlerLoop(st, cat, handler, 0, 0)
                   ELSE [st |-> st, catValid |-> 0]
      after == IF scanned.catValid = 0
                 THEN warning(scanned.st, 1, HANDLER_NOT_SET, env)
                 ELSE scanned.st
  IN [st |-> after, ret |-> scanned.catValid]

\* ------------------------------------------------------------------ logger
\* A slip in logger's test: only the upper-case spelling is compared.
loggerMatchUpperOnly(cat, index) ==
  strcmp(cat, VALID_CATS[index][UPPER_INDEX]) # 0

\* The test of logger's loop, as written: strcmp's results are used without
\* negation.
loggerMatch(cat, index) ==
  \/ strcmp(cat, VALID_CATS[index][UPPER_INDEX]) # 0
  \/ strcmp(cat, VALID_CATS[index][LOWER_INDEX]) # 0

\* The for loop of logger from index on; yields the state and catValid.
RECURSIVE loggerLoop(_, _, _, _, _, _)
loggerLoop(st, cat, msg, index, catValid, env) ==
  IF index < NUM_LOG_CATS /\ catValid = 0
    THEN IF loggerMatch(cat, index)
           THEN loggerLoop(IF st.logHandlers[index] # NULL
                             THEN CallHandler(st, index, st.logHandlers[index], 1, msg, env)
                             ELSE st,
                           cat, msg, index + 1, 1, env)
           ELSE loggerLoop(st, cat, msg, index + 1, catValid, env)
    ELSE [st |-> st, catValid |-> catValid]

\* logger(cat, msg): the state it leaves.
logger(st, cat, msg, env) ==
  IF st.initialized # 0
    THEN LET scanned == IF cat # NullStr
                          THEN loggerLoop(st, cat, msg, 0, 0, env)
                          ELSE [st |-> st, catValid |-> 0]
         IN IF scanned.catValid = 0
              THEN warning(scanned.st, 1, MSG_NOT_LOGGED, env)
              ELSE scanned.st
    ELSE st

\* ----------------------------------------------------------------- initLog
\* A slip in initLog's guard: an initialized subsystem is initialized again.
initLogGuardNoFlag(st, dest) == dest # NULL

\* A slip in initLog's guard: a null stream is accepted.
initLogGuardNoNullTest(st, dest) == st.initialized = 0

\* The guard of initLog's body.
initLogGuard(st, dest) == dest # NULL /\ st.initialized = 0

\* The setHandler calls initLog makes, in order.
initLogCalls ==
  << [cat |-> VALID_CATS[VERBOSE_IDX][UPPER_INDEX], handler |-> NULL],
     [cat |-> VALID_CATS[INFO_IDX][UPPER_INDEX], handler |-> "defaultInfoHandler"],
     [cat |-> VALID_CATS[WARNING_IDX][UPPER_INDEX], handler |-> "defaultWarningHandler"],
     [cat |-> VALID_CATS[ERROR_IDX][UPPER_INDEX], handler |-> "defaultErrorHandler"],
     [cat |-> VALID_CATS[FATAL_IDX][UPPER_INDEX], handler |-> "defaultFatalHandler"] >>

\* The state after the setHandler calls of settings, made one after the other
\* from st.
RECURSIVE setHandlerAll(_, _, _)
setHandlerAll(st, settings, env) ==
  IF settings = << >>
    THEN st
    ELSE CHOOSE r \in {setHandlerAll(s, Tail(settings), env) :
                         s \in {setHandler(st, Head(settings).cat,
                                            Head(settings).handler, env).st}} : TRUE

\* A slip in initLog: VERBOSE gets its default handler like the others.
initLogDefaultsVerboseOn(st, env) ==
  setHandlerAll(st, [initLogCalls EXCEPT ![1].handler = "defaultVerboseHandler"], env)

\* The five setHandler calls of initLog.
initLogDefaults(st, env) == setHandlerAll(st, initLogCalls, env)

\* A slip in initLog: a later call with a stream takes it as the new sink.
initLogRebindsSink(st, dest, env) ==
  LET after ==
        IF initLogGuard(st, dest)
          THEN LET s0 == [st EXCEPT !.logOutput = dest, !.initialized = 1]
                   s5 == initLogDefaults(s0, env)
               IN [s5 EXCEPT !.atexitRegs = @ + 1]
          ELSE IF dest # NULL THEN [st EXCEPT !.logOutput = dest] ELSE st
  IN [st |-> after, ret |-> after.initialized]

\* A slip in initLog: atexit(closeLog) is called outside the guarded block.
initLogRegistersEveryTime(st, dest, env) ==
  LET after ==
        IF initLogGuard(st, dest)
          THEN LET s0 == [st EXCEPT !.logOutput = dest, !.initialized = 1]
               IN initLogDefaults(s0, env)
          ELSE st
  IN [st |-> [after EXCEPT !.atexitRegs = @ + 1], ret |-> after.initialized]

\* initLog(dest): the state it leaves and the value it returns.
initLog(st, dest, env) ==
  LET after ==
        IF initLogGuard(st, dest)
          THEN LET s0 == [st EXCEPT !.logOutput = dest, !.initialized = 1]
                   s5 == initLogDefaults(s0, env)
               IN [s5 EXCEPT !.atexitRegs = @ + 1]
          ELSE st
  IN [st |-> after, ret |-> after.initialized]

\* closeLog(): how many times fclose runs (0 or 1).
closeLog(st) == IF st.initialized # 0 THEN 1 ELSE 0

\* ----------------------------------------------------------------- actions
\* What a call returned, as recorded in ret.
Void == << >>
Returned(v) == << v >>

\* The arguments a call does not take, in the record op.
NoArg == [cat |-> NullStr, msg |-> NullStr, cond |-> 0, handler |-> NULL, dest |-> NULL]

\* The record of a call, kept in op.
Call(name, args) == [name |-> name, cat |-> args.cat, msg |-> args.msg,
                     cond |-> args.cond, handler |-> args.handler, dest |-> args.dest]

\* The table initLog's five setHandler calls leave.
InstalledDefaults ==
  initLogDefaults([logHandlers |-> [index \in 0..(NUM_LOG_CATS - 1) |-> NULL],
                   initialized |-> 1, calls |-> << >>],
                  [date |-> << >>, stray |-> "x"]).logHandlers

\* How many slots of table t hold something else than initLog installs.
ChangedSlots(t) ==
  Cardinality({index \in 0..(NUM_LOG_CATS - 1) : t[index] # InstalledDefaults[index]})

\* The state a call leaves, installed as the next state.
Install(st, r, o) ==
  /\ Len(st.written) <= MaxLines
  /\ logHandlers' = st.logHandlers
  /\ logOutput' = st.logOutput
  /\ initialized' = st.initialized
  /\ written' = st.written
  /\ atexitRegs' = st.atexitRegs
  /\ ub' = st.ub
  /\ calls' = st.calls
  /\ ret' = r
  /\ op' = o
  /\ UNCHANGED << phase, closes, fmt >>

\* The program is running, has not left defined behaviour, and its caller is
\* ready to make the next call.
Running == phase = "running" /\ ~ub /\ op.name = "idle"

CallInitLog(dest) ==
  /\ Running
  /\ \E env \in Envs :
     \E r \in {initLog(State, dest, env)} :
          Install(r.st, Returned(r.ret), Call("initLog", [NoArg EXCEPT !.dest = dest]))

CallLogger(cat, msg) ==
  /\ Running
  /\ \E env \in Envs :
     \E st \in {logger(State, cat, msg, env)} :
       Install(st, Void,
               Call("logger", [NoArg EXCEPT !.cat = cat, !.msg = msg]))

CallVerbose(cond, msg) ==
  /\ Running
  /\ \E env \in Envs :
     \E st \in {verbose(State, cond, msg, env)} :
       Install(st, Void,
               Call("verbose", [NoArg EXCEPT !.cond = cond, !.msg = msg]))

CallInfo(cond, msg) ==
  /\ Running
  /\ \E env \in Envs :
     \E st \in {info(State, cond, msg, env)} :
       Install(st, Void,
               Call("info", [NoArg EXCEPT !.cond = cond, !.msg = msg]))

CallWarning(cond, msg) ==
  /\ Running
  /\ \E env \in Envs :
     \E st \in {warning(State, cond, msg, env)} :
       Install(st, Void,
               Call("warning", [NoArg EXCEPT !.cond = cond, !.msg = msg]))

CallError(cond, msg) ==
  /\ Running
  /\ \E env \in Envs :
     \E st \in {error(State, cond, msg, env)} :
       Install(st, Void,
               Call("error", [NoArg EXCEPT !.cond = cond, !.msg = msg]))

CallFatal(cond, msg) ==
  /\ Running
  /\ \E env \in Envs :
     \E st \in {fatal(State, cond, msg, env)} :
       Install(st, Void,
               Call("fatal", [NoArg EXCEPT !.cond = cond, !.msg = msg]))

CallSetHandler(cat, handler) ==
  /\ Running
  /\ \E env \in Envs :
     \E r \in {setHandler(State, cat, handler, env)} :
          /\ r.st.initialized # 0 => ChangedSlots(r.st.logHandlers) <= MaxChanged
          /\ Install(r.st, Returned(r.ret),
                     Call("setHandler", [NoArg EXCEPT !.cat = cat, !.handler = handler]))

\* The process exits: every registered closeLog runs.
ProcessExit ==
  /\ Running
  /\ phase' = "exited"
  /\ closes' = closes + atexitRegs * closeLog(State)
  /\ calls' = << >>
  /\ ret' = Void
  /\ op' = Call("exit", NoArg)
  /\ UNCHANGED << logHandlers, logOutput, initialized, written, atexitRegs, ub, fmt >>

\* During exit, after the registered closeLog has run, a function the program
\* registered with atexit before it called initLog runs and logs through the
\* emit function of category c. closeLog leaves initialized and logOutput as
\* they were, so the handlers still call fprintf; on a closed stream that is
\* undefined behaviour.
ExitCallback(c, msg) ==
  /\ phase = "exited"
  /\ ~ub
  /\ op.name = "exit"
  /\ \E env \in Envs :
     \E st \in {emit(State, c, 1, msg, env)} :
       /\ Len(st.written) <= MaxLines
       /\ logHandlers' = st.logHandlers
       /\ logOutput' = st.logOutput
       /\ initialized' = st.initialized
       /\ written' = st.written
       /\ atexitRegs' = st.atexitRegs
       /\ ub' = (st.ub \/ (closes > 0 /\ st.written # written))
       /\ calls' = st.calls
       /\ ret' = Void
       /\ op' = Call("exitCallback", [NoArg EXCEPT !.cat = VALID_CATS[c][UPPER_INDEX],
                                                   !.cond = 1, !.msg = msg])
       /\ UNCHANGED << phase, closes, fmt >>

\* The caller has taken the result of its last call and goes on; the record of
\* the call is dropped, the library's state is untouched.
Return ==
  /\ phase = "running"
  /\ ~ub
  /\ op.name # "idle"
  /\ op' = Call("idle", NoArg)
  /\ calls' = << >>
  /\ ret' = Void
  /\ UNCHANGED << logHandlers, logOutput, initialized, written, atexitRegs, ub,
                  phase, closes, fmt >>

\* No direct call of logFormat is under way.
NoFormat ==
  [stage |-> "none", dest |-> NULL, cat |-> NullStr, msg |-> NullStr,
   env |-> [date |-> << >>, stray |-> "x"], out |-> NoResult]

Init ==
  /\ logHandlers = [index \in 0..(NUM_LOG_CATS - 1) |-> NULL]
  /\ logOutput = NULL
  /\ initialized = 0
  /\ written = << >>
  /\ atexitRegs = 0
  /\ ub = FALSE
  /\ calls = << >>
  /\ ret = Void
  /\ op = Call("idle", NoArg)
  /\ phase = "running"
  /\ closes = 0
  /\ fmt = NoFormat

Next ==
  \/ \E dest \in Streams \cup {NULL} : CallInitLog(dest)
  \/ \E cat \in CatNames, msg \in Msgs : CallLogger(cat, msg)
  \/ \E cond \in Conds, msg \in Msgs : CallVerbose(cond, msg)
  \/ \E cond \in Conds, msg \in Msgs : CallInfo(cond, msg)
  \/ \E cond \in Conds, msg \in Msgs : CallWarning(cond, msg)
  \/ \E cond \in Conds, msg \in Msgs : CallError(cond, msg)
  \/ \E cond \in Conds, msg \in Msgs : CallFatal(cond, msg)
  \/ \E cat \in CatNames : \E handler \in HandlerArgsFor(cat) : CallSetHandler(cat, handler)
  \/ Return
  \/ ProcessExit
  \/ \E c \in 0..(NUM_LOG_CATS - 1), msg \in Msgs : ExitCallback(c, msg)

Spec == Init /\ [][Next]_vars

\* --------------------------------------------- logFormat called on its own
\* The caller has picked the arguments of a logFormat call; the library is as
\* it is at program start.
FormatInit ==
  /\ logHandlers = [index \in 0..(NUM_LOG_CATS - 1) |-> NULL]
  /\ logOutput = NULL
  /\ initialized = 0
  /\ written = << >>
  /\ atexitRegs = 0
  /\ ub = FALSE
  /\ calls = << >>
  /\ ret = Void
  /\ op = Call("idle", NoArg)
  /\ phase = "running"
  /\ closes = 0
  /\ \E dest \in FormatDests, cat \in FormatCats, msg \in FormatMsgs, env \in FormatEnvs :
       fmt = [stage |-> "args", dest |-> dest, cat |-> cat, msg |-> msg,
              env |-> env, out |-> NoResult]

\* logFormat runs on the arguments picked; it touches none of the library's
\* globals.
CallLogFormat ==
  /\ fmt.stage = "args"
  /\ \E r \in {logFormatCall(fmt.dest, fmt.cat, fmt.msg, fmt.env)} :
       fmt' = [fmt EXCEPT !.stage = "done", !.out = r]
  /\ UNCHANGED << logHandlers, logOutput, initialized, written, atexitRegs, ub,
                  calls, ret, op, phase, closes >>

FormatNext == CallLogFormat

FormatSpec == FormatInit /\ [][FormatNext]_vars

TypeOK ==
  /\ initialized \in {0, 1}
  /\ logOutput \in Streams \cup {NULL}
  /\ Len(written) <= MaxLines
  /\ ret \in {Void, Returned(0), Returned(1)}

\* ------------------------------------------------- vocabulary of the claims
Cats == 0..(NUM_LOG_CATS - 1)
Upper(c) == VALID_CATS[c][UPPER_INDEX]
Lower(c) == VALID_CATS[c][LOWER_INDEX]
ExactNames == {Upper(c) : c \in Cats} \cup {Lower(c) : c \in Cats}

\* The name of the emit function of category c.
EmitName(c) ==
  CASE c = VERBOSE_IDX -> "verbose"
    [] c = INFO_IDX    -> "info"
    [] c = WARNING_IDX -> "warning"
    [] c = ERROR_IDX   -> "error"
    [] OTHER           -> "fatal"

\* The step is a call of c's emit function / of logger / of setHandler / of
\* initLog (op' holds the call that made the step).
EmitCalled(c) == op'.name = EmitName(c)
LoggerCalled == op'.name = "logger"
LoggerCalledFor(c) == op'.name = "logger" /\ op'.cat \in {Upper(c), Lower(c)}
SetHandlerCalled == op'.name = "setHandler"
InitLogCalled == op'.name = "initLog"

\* One invocation, with cond and msg, of the handler stored in slot c before
\* the call; none when the slot is empty.
SlotInvokedOnce(c, cond, msg) ==
  IF logHandlers[c] = NULL
    THEN << >>
    ELSE << [index |-> c, handler |-> logHandlers[c], cond |-> cond, msg |-> msg] >>

\* The table initLog is documented to install.
DefaultTable ==
  [c \in Cats |->
     CASE c = VERBOSE_IDX -> NULL
       [] c = INFO_IDX    -> "defaultInfoHandler"
       [] c = WARNING_IDX -> "defaultWarningHandler"
       [] c = ERROR_IDX   -> "defaultErrorHandler"
       [] OTHER           -> "defaultFatalHandler"]

\* line has label followed by ':' as its category field, after the two tabs
\* that end the date field, and ends in a newline.
CarriesLabel(line, label) ==
  /\ Len(line) > 0
  /\ line[Len(line)] = "\n"
  /\ \E i \in 1..Len(line) :
       /\ \A j \in 1..(i - 1) : line[j] # "\t"
       /\ SubSeq(line, i, i + 1 + Len(label) + 1) = << "\t", "\t" >> \o label \o << ":" >>

\* The last entry fprintf put on the sink.
LastWritten(w) == w[Len(w)]

\* written grows by exactly one entry.
OneLineAppended ==
  /\ Len(written') = Len(written) + 1
  /\ SubSeq(written', 1, Len(written)) = written

\* ------------------------------------------------------------------ claims

\* C1: when initialized, logger called with the all-uppercase or all-lowercase
\* name of category c invokes the handler in c's slot exactly once with
\* condition true and the message (nothing when the slot is empty), and no
\* handler of another category.
C1_LoggerDispatchesToNamedCategory ==
  [][\A c \in Cats :
       (initialized = 1 /\ LoggerCalledFor(c))
         => calls' = SlotInvokedOnce(c, 1, op'.msg)]_vars

\* C2: when initialized, logger called with a non-null name that is no exact
\* spelling of a category delivers the message to no handler, invokes the
\* WARNING slot's handler exactly once with the text "Invalid category
\* provided. Message is not logged.", and writes nothing when that slot is
\* empty.
C2_LoggerWarnsOnInvalidName ==
  [][(initialized = 1 /\ LoggerCalled /\ op'.cat \notin ExactNames \cup {NullStr})
       => /\ calls' = SlotInvokedOnce(WARNING_IDX, 1, MSG_NOT_LOGGED)
          /\ logHandlers[WARNING_IDX] = NULL => written' = written]_vars

C4_DisabledCategoryIsSilent ==
  [][\A c \in Cats :
       (/\ initialized = 1
        /\ logHandlers[c] = NULL
        /\ EmitCalled(c) \/ LoggerCalledFor(c))
         => written' = written /\ calls' = << >>]_vars

\* C5: setHandler(n, h) returns 1 exactly when the subsystem is initialized
\* and n is non-null and an exact upper- or lower-case category name; then
\* that category's slot becomes h and the other slots, the sink and the flag
\* are unchanged; when it returns 0 the table is unchanged.
C5_SetHandlerResultAndFrame ==
  [][SetHandlerCalled
       => /\ ret' \in {Returned(0), Returned(1)}
          /\ (ret' = Returned(1))
               <=> (initialized = 1 /\ op'.cat # NullStr /\ op'.cat \in ExactNames)
          /\ ret' = Returned(1) =>
               /\ \E c \in Cats :
                    /\ op'.cat \in {Upper(c), Lower(c)}
                    /\ logHandlers' = [logHandlers EXCEPT ![c] = op'.handler]
               /\ UNCHANGED << logOutput, written, initialized >>
          /\ ret' = Returned(0) => logHandlers' = logHandlers]_vars

C5_Witness ==
  /\ op.name = "setHandler"
  /\ op.cat = Lower(FATAL_IDX)
  /\ ret = Returned(1)
  /\ logHandlers[FATAL_IDX] = CustomHandler
  /\ logHandlers[INFO_IDX] = NULL

\* C6: a setHandler call that returns 0 invokes the handler in the WARNING
\* slot exactly once with condition true and the text "Invalid category
\* provided. Handler is not set." (writing nothing when that slot is empty);
\* a call that returns 1 raises no warning.
C6_SetHandlerWarnsOnFailure ==
  [][SetHandlerCalled
       => /\ ret' = Returned(0) =>
               /\ calls' = SlotInvokedOnce(WARNING_IDX, 1, HANDLER_NOT_SET)
               /\ logHandlers[WARNING_IDX] = NULL => written' = written
          /\ ret' = Returned(1) => (calls' = << >> /\ written' = written)]_vars

C6_Witness ==
  /\ op.name = "setHandler"
  /\ ret = Returned(0)
  /\ Len(calls) = 1
  /\ calls[1].msg = HANDLER_NOT_SET
  /\ calls[1].handler = "defaultWarningHandler"
  /\ Len(written) = 1

\* C7: initLog with a non-null stream while uninitialized returns 1 and leaves
\* sink = that stream, initialized = 1, the VERBOSE slot empty and the other
\* four slots bound to their default handlers, with nothing written.
C7_FirstInitInstallsDefaults ==
  [][(initialized = 0 /\ InitLogCalled /\ op'.dest # NULL)
       => /\ ret' = Returned(1)
          /\ logOutput' = op'.dest
          /\ initialized' = 1
          /\ logHandlers' = DefaultTable
          /\ written' = written
          /\ calls' = << >>]_vars

C7_Witness ==
  /\ op.name = "initLog"
  /\ op.dest = "f2"
  /\ ret = Returned(1)
  /\ logOutput = "f2"
  /\ logHandlers = DefaultTable
  /\ written = << >>

\* C8: once initialized, every initLog call (same, different or null stream)
\* returns 1 and changes nothing: sink, table, output and teardown
\* registrations stay as they are.
C8_LaterInitIsNoOp ==
  [][(initialized = 1 /\ InitLogCalled)
       => /\ ret' = Returned(1)
          /\ UNCHANGED << logOutput, initialized, logHandlers, written, atexitRegs >>
          /\ calls' = << >>]_vars

C8_Witness ==
  /\ op.name = "initLog"
  /\ op.dest = "f2"
  /\ logOutput = "f1"
  /\ ret = Returned(1)
  /\ logHandlers[VERBOSE_IDX] = CustomHandler
  /\ logHandlers[WARNING_IDX] = NULL
  /\ Len(written) = 1
  /\ atexitRegs = 1

\* C9: initLog(NULL) while uninitialized returns 0 and changes nothing (flag
\* 0, sink unset, all slots empty, no teardown registered), and while the
\* subsystem stays uninitialized every emit call (logger and the five emit
\* functions) writes nothing and executes no undefined behaviour.
C9_NullInitFailsQuietly ==
  [][/\ (initialized = 0 /\ InitLogCalled /\ op'.dest = NULL)
          => /\ ret' = Returned(0)
             /\ initialized' = 0
             /\ logOutput' = NULL
             /\ \A c \in Cats : logHandlers'[c] = NULL
             /\ atexitRegs' = 0
             /\ UNCHANGED << written, logHandlers, logOutput, atexitRegs >>
     /\ (initialized' = 0 /\ (LoggerCalled \/ \E c \in Cats : EmitCalled(c)))
          => written' = written /\ calls' = << >> /\ ~ub']_vars

C9_Witness ==
  /\ op.name = "initLog"
  /\ op.dest = NULL
  /\ ret = Returned(0)
  /\ initialized = 0
  /\ logOutput = NULL

\* C10: whenever the initialized flag is 0, all five slots are empty and the
\* sink is unset, and the last call invoked no handler and nothing has been
\* written.
C10_UninitializedIsInert ==
  initialized = 0 =>
    /\ \A c \in Cats : logHandlers[c] = NULL
    /\ logOutput = NULL
    /\ calls = << >>
    /\ written = << >>
    /\ ~ub

C10_Witness ==
  /\ initialized = 0
  /\ op.name = "setHandler"
  /\ op.cat = Upper(WARNING_IDX)
  /\ ret = Returned(0)
  /\ calls = << >>

\* C14: in every reachable state, for every category c and every message,
\* logger called with c's all-lowercase name and logger called with c's
\* all-uppercase name have identical effects: the same handler invocations
\* with the same arguments, the same sink output and the same resulting state.
C14_LowerAndUpperNamesAgree ==
  \A c \in Cats : \A msg \in Msgs : \A env \in Envs :
    logger(State, Lower(c), msg, env) = logger(State, Upper(c), msg, env)

C14_Witness ==
  /\ op.name = "logger"
  /\ op.cat = Lower(VERBOSE_IDX)
  /\ logHandlers[VERBOSE_IDX] = "defaultVerboseHandler"
  /\ Len(calls) = 1
  /\ Len(written) = 1
  /\ CarriesLabel(written[1], Upper(VERBOSE_IDX))

\* C15: the initialized flag only goes from 0 to 1 and never back; the sink is
\* assigned once, by the first successful initLog, and holds that stream in
\* every later state; no operation other than initLog changes either.
C15_FlagAndSinkSetOnce ==
  [][/\ initialized = 1 => initialized' = 1
     /\ logOutput # NULL => logOutput' = logOutput
     /\ (initialized' # initialized \/ logOutput' # logOutput)
          => /\ InitLogCalled
             /\ ret' = Returned(1)
             /\ initialized = 0 /\ initialized' = 1
             /\ logOutput = NULL /\ logOutput' = op'.dest /\ op'.dest # NULL]_vars

C15_Witness ==
  /\ phase = "exited"
  /\ op.name = "exitCallback"
  /\ initialized = 1
  /\ logOutput = "f2"
  /\ closes = 1

\* C16: closeLog is registered at most once, and exactly once if some initLog
\* succeeded; so the sink is closed exactly once at process exit, and never
\* closed when no initialization succeeded.
C16_TeardownRegisteredOnce ==
  /\ atexitRegs \in {0, 1}
  /\ atexitRegs = 1 <=> initialized = 1
  /\ phase = "running" => closes = 0
  /\ phase = "exited" => closes = initialized

C16_Witness ==
  /\ phase = "exited"
  /\ op.name = "exit"
  /\ atexitRegs = 1
  /\ closes = 1
  /\ Len(written) = 1

\* The default handler of category c.
DefaultHandlerOf(c) ==
  CASE c = VERBOSE_IDX -> "defaultVerboseHandler"
    [] c = INFO_IDX    -> "defaultInfoHandler"
    [] c = WARNING_IDX -> "defaultWarningHandler"
    [] c = ERROR_IDX   -> "defaultErrorHandler"
    [] OTHER           -> "defaultFatalHandler"

\* C17: for every category whose slot holds its default handler, the emit
\* function called with a zero condition leaves the sink unchanged; and for a
\* slot holding a custom handler h, the emit function invokes h exactly once
\* with the condition and message it was given, a zero condition included.
C17_FalseConditionAndCustomHandler ==
  [][\A c \in Cats :
       /\ (EmitCalled(c) /\ logHandlers[c] = DefaultHandlerOf(c) /\ op'.cond = 0)
            => written' = written
       /\ (EmitCalled(c) /\ logHandlers[c] = CustomHandler)
            => calls' = << [index |-> c, handler |-> CustomHandler,
                            cond |-> op'.cond, msg |-> op'.msg] >>]_vars

C17_Witness ==
  /\ op.name = "fatal"
  /\ op.cond = 0
  /\ logHandlers[FATAL_IDX] = CustomHandler
  /\ logHandlers[VERBOSE_IDX] = "defaultVerboseHandler"
  /\ calls = << [index |-> FATAL_IDX, handler |-> CustomHandler,
                 cond |-> 0, msg |-> op.msg] >>

\* C19: once closeLog has closed the sink, no later operation writes to it.
C19_NoWriteAfterClose ==
  [][closes > 0 => written' = written]_vars

\* ------------------------------------------- vocabulary of logFormat's claims
\* The direct logFormat call has been made.
FormatDone == fmt.stage = "done"

\* The message is a string (not the null pointer).
MsgGiven == fmt.msg # NullStr

\* The terminal-punctuation rule applied to text: unchanged when it ends in
\* '.', '!' or '?', otherwise followed by one '.'.
Punctuated(text) ==
  IF Len(text) > 0 /\ IsPunct(text[Len(text)]) THEN text ELSE text \o << "." >>

\* The first MAX_CHARS_IN_MSG characters of text.
Truncated(text) == SubSeq(text, 1, MAX_CHARS_IN_MSG)

NullLiteral == << "(", "n", "u", "l", "l", ")" >>

\* C11: for every non-null message passed to logFormat the rendered message
\* field is the message unchanged when its last character is '.', '!' or '?',
\* and the message followed by exactly one '.' otherwise.
C11_TerminalPunctuationRule ==
  (FormatDone /\ MsgGiven) => fmt.out.msgField = Punctuated(fmt.msg)

\* C12: for every message longer than MAX_CHARS_IN_MSG characters the rendered
\* message field is the first MAX_CHARS_IN_MSG characters, followed by '.'
\* unless the last kept character is '.', '!' or '?'.
C12_TruncatesThenPunctuates ==
  (FormatDone /\ MsgGiven /\ Len(fmt.msg) > MAX_CHARS_IN_MSG)
    => fmt.out.msgField = Punctuated(Truncated(fmt.msg))

\* C13: logFormat reaches no error state on absent inputs: with a null message
\* the message field is "(null)", with a null category the category field is
\* empty, with a null destination it returns null and formats nothing, and
\* otherwise it returns the destination buffer.
C13_AbsentInputsAreHandled ==
  FormatDone =>
    /\ fmt.msg = NullStr => (~fmt.out.ub /\ fmt.out.msgField = NullLiteral)
    /\ fmt.cat = NullStr => fmt.out.catField = << >>
    /\ fmt.dest = NULL => (fmt.out.ret = NULL /\ ~fmt.out.formatted)
    /\ fmt.dest # NULL => (fmt.out.ret = fmt.dest /\ fmt.out.formatted)
    /\ ((fmt.cat = NullStr \/ fmt.dest = NULL)
          /\ MsgGiven /\ Len(fmt.msg) \in 1..MAX_CHARS_IN_MSG) => ~fmt.out.ub

\* C18: for every message string, of any length, every index logFormat reads
\* in the message lies in 0..strlen(msg), every index it writes in the message
\* field lies in 0..MAX_CHARS_IN_MSG+1, and the message field is
\* NUL-terminated when it is rendered.
C18_IndicesWithinBounds ==
  (FormatDone /\ MsgGiven)
    => /\ fmt.out.reads \subseteq 0..Len(fmt.msg)
       /\ fmt.out.writes \subseteq 0..(MAX_CHARS_IN_MSG + 1)
       /\ fmt.out.terminated

\* C20: for each of the five labels the default handlers pass and every
\* message of at most MAX_CHARS_IN_MSG characters, the category field has at
\* most MAX_CHARS_IN_LOG_CAT characters, the message field at most
\* MAX_CHARS_IN_MSG+1, the date at most MAX_CHARS_IN_DATE, and the whole line
\* (date, two tabs, padded category field, two tabs, message field) at most
\* MAX_CHARS_IN_FINAL_MSG.
C20_LineFitsItsBuffers ==
  (/\ FormatDone
   /\ fmt.dest # NULL
   /\ fmt.cat \in {LabelChars(c) : c \in 0..(NUM_LOG_CATS - 1)}
   /\ MsgGiven
   /\ Len(fmt.msg) <= MAX_CHARS_IN_MSG)
    => /\ Len(fmt.out.catField) <= MAX_CHARS_IN_LOG_CAT
       /\ Len(fmt.out.msgField) <= MAX_CHARS_IN_MSG + 1
       /\ Len(fmt.env.date) <= MAX_CHARS_IN_DATE
       /\ Len(fmt.out.text) =
            Len(fmt.env.date) + 2 + MAX_CHARS_IN_LOG_CAT + 2 + Len(fmt.out.msgField)
       /\ Len(fmt.out.text) <= MAX_CHARS_IN_FINAL_MSG

C20_Witness ==
  /\ FormatDone
  /\ fmt.dest # NULL
  /\ fmt.cat = LabelChars(WARNING_IDX)
  /\ Len(fmt.msg) = MAX_CHARS_IN_MSG
  /\ Len(fmt.env.date) = MAX_CHARS_IN_DATE
  /\ Len(fmt.out.msgField) = MAX_CHARS_IN_MSG + 1
  /\ Len(fmt.out.text) = MAX_CHARS_IN_DATE + MAX_CHARS_IN_LOG_CAT + MAX_CHARS_IN_MSG + 5

====
